---------------------------- MODULE Spec2Model ----------------------------
(***************************************************************************)
(* Model of the two utilities of the repository:                           *)
(*   - fixed_point.py: FixedFormat, _round_to_int, _apply_overflow,        *)
(*     int_to_real, int_to_hex, quantize, add, mul;                        *)
(*   - extract_tex_citations.py: parse_bib_entries, load_all_bib_entries.  *)
(*                                                                         *)
(* Real numbers (Python floats) are modelled as exact rationals            *)
(* [num, den] with den > 0.  A double holds every value that occurs here   *)
(* exactly as long as the stored integers fit its 53-bit significand, so   *)
(* the rational model is the code's arithmetic for formats with W <= 53.   *)
(***************************************************************************)
EXTENDS Integers, Sequences, FiniteSets, TLC

VARIABLES
    fmt,          \* the FixedFormat of the call: [W, F, signed]
    overflow,     \* the overflow token of the call
    rounding,     \* the rounding token of the call
    op,           \* the operation that was called last
    a, b,         \* the real arguments of the call
    qin,          \* the stored integer handed to int_to_real by a round trip
    res,          \* what the call returned or raised
    res2,         \* what re-quantizing res.xr returned
    bib_files,    \* load_all_bib_entries: the list of .bib paths
    fs,           \* the file system: path -> what the path holds
    idx,          \* load_all_bib_entries: position of the for loop
    all_entries,  \* load_all_bib_entries: key -> <<path, entry text>>
    pc            \* load_all_bib_entries: "idle", "loop" or "done"

fpvars  == <<fmt, overflow, rounding, op, a, b, qin, res, res2>>
bibvars == <<bib_files, fs, idx, all_entries, pc>>
vars    == <<fmt, overflow, rounding, op, a, b, qin, res, res2,
             bib_files, fs, idx, all_entries, pc>>

---------------------------------------------------------------------------
(* Bounds of the model *)

\* formats have 1 <= W <= MaxW
MaxW == 3
\* quantize is given reals on a grid of Sub points per LSB
Sub == 4
\* quantize is given reals up to Margin LSBs beyond +-modulus
Margin == 1
\* add and mul are given operands up to ArgMax LSBs in magnitude (in half LSBs)
ArgMax == 5

---------------------------------------------------------------------------
(* Exact rationals standing for the floats *)

Real(n, d) == [num |-> n, den |-> d]
Zero == Real(0, 1)
REq(x, y) == x.num * y.den = y.num * x.den
RLe(x, y) == x.num * y.den <= y.num * x.den
RAdd(x, y) == Real(x.num * y.den + y.num * x.den, x.den * y.den)
RSub(x, y) == Real(x.num * y.den - y.num * x.den, x.den * y.den)
RMulInt(x, n) == Real(x.num * n, x.den)
RAbs(x) == Real(IF x.num < 0 THEN -x.num ELSE x.num, x.den)
\* math.floor and math.ceil
Floor(y) == y.num \div y.den
\* (mutation) ceil taken as floor + 1, wrong on integers
Ceil_floor_plus_one(y) == Floor(y) + 1
Ceil(y) == -((-y.num) \div y.den)
\* (mutation) nearest taken as truncation toward zero, int(y)
PyRound_truncate(y) == IF y.num >= 0 THEN Floor(y) ELSE Ceil(y)
\* the builtin round() of a float: to nearest, ties to the even integer
PyRound(y) ==
    LET fl == Floor(y)
        r2 == 2 * (y.num - fl * y.den)
    IN  IF r2 < y.den THEN fl
        ELSE IF r2 > y.den THEN fl + 1
        ELSE IF fl % 2 = 0 THEN fl ELSE fl + 1

---------------------------------------------------------------------------
(* FixedFormat and its derived properties *)

scale(f) == 2 ^ f.F
modulus(f) == 2 ^ f.W
min_int(f) == IF f.signed THEN -(2 ^ (f.W - 1)) ELSE 0
max_int(f) == IF f.signed THEN 2 ^ (f.W - 1) - 1 ELSE 2 ^ f.W - 1
resolution(f) == Real(1, scale(f))
min_real(f) == Real(min_int(f), scale(f))
max_real(f) == Real(max_int(f), scale(f))

\* the example format of the source, Fix16_11
Fix16_11 == [W |-> 16, F |-> 11, signed |-> TRUE]

Overflows == {"wrap", "saturate"}
Roundings == {"nearest", "floor", "ceil"}

---------------------------------------------------------------------------
(* Conversions *)

\* _round_to_int for the three valid tokens (any other token raises)
round_to_int(x, f, r) ==
    LET y == RMulInt(x, scale(f))
    IN  CASE r = "nearest" -> PyRound(y)
          [] r = "floor"   -> Floor(y)
          [] r = "ceil"    -> Ceil(y)

\* (mutation) wrap with a truncating remainder, which keeps the sign of qi
apply_overflow_truncating_mod(qi, f, o) ==
    CASE o = "wrap" ->
            LET q == IF qi >= 0 THEN qi % modulus(f) ELSE -((-qi) % modulus(f))
            IN  IF f.signed /\ q >= 2 ^ (f.W - 1) THEN q - modulus(f) ELSE q
      [] o = "saturate" ->
            LET lo == IF max_int(f) < qi THEN max_int(f) ELSE qi
            IN  IF min_int(f) > lo THEN min_int(f) ELSE lo

\* (mutation) saturate clamps to the unsigned range whatever the signedness
apply_overflow_unsigned_clamp(qi, f, o) ==
    CASE o = "wrap" ->
            LET q == qi % modulus(f)
            IN  IF f.signed /\ q >= 2 ^ (f.W - 1) THEN q - modulus(f) ELSE q
      [] o = "saturate" ->
            LET lo == IF 2 ^ f.W - 1 < qi THEN 2 ^ f.W - 1 ELSE qi
            IN  IF 0 > lo THEN 0 ELSE lo

\* _apply_overflow for the two valid tokens (any other token raises)
apply_overflow(qi, f, o) ==
    CASE o = "wrap" ->
            LET q == qi % modulus(f)
            IN  IF f.signed /\ q >= 2 ^ (f.W - 1) THEN q - modulus(f) ELSE q
      [] o = "saturate" ->
            LET lo == IF max_int(f) < qi THEN max_int(f) ELSE qi
            IN  IF min_int(f) > lo THEN min_int(f) ELSE lo

\* (mutation) the folded integer divided by the modulus instead of the scale
int_to_real_by_modulus(qi, f) ==
    LET q == qi % modulus(f)
        t == IF f.signed /\ q >= 2 ^ (f.W - 1) THEN q - modulus(f) ELSE q
    IN  Real(t, modulus(f))

int_to_real(qi, f) ==
    LET q == qi % modulus(f)
        t == IF f.signed /\ q >= 2 ^ (f.W - 1) THEN q - modulus(f) ELSE q
    IN  Real(t, scale(f))

HexDigit == <<"0", "1", "2", "3", "4", "5", "6", "7",
              "8", "9", "A", "B", "C", "D", "E", "F">>

RECURSIVE HexPad(_, _)
\* format(u, "0{n}X"): the upper-case hex digits of u, zero-padded to n digits
HexPad(u, n) ==
    IF u < 16 /\ n <= 1 THEN <<HexDigit[u + 1]>>
    ELSE Append(HexPad(u \div 16, n - 1), HexDigit[(u % 16) + 1])

int_to_hex(qi, f) ==
    LET u == qi % modulus(f)
        width_nibbles == (f.W + 3) \div 4
    IN  <<"0", "x">> \o HexPad(u, width_nibbles)

---------------------------------------------------------------------------
(* What a call does: it returns the triple (qi, xr, hex) or raises *)

Return(qi, xr, hex) == [raised |-> "none", ret |-> <<qi, xr, hex>>]
Raise(e) == [raised |-> e, ret |-> <<>>]
NoCall == [raised |-> "none", ret |-> <<>>]
Returned(r) == r.raised = "none" /\ r.ret # <<>>

quantize(x, f, o, r) ==
    IF r \notin Roundings THEN Raise("ValueError")
    ELSE IF o \notin Overflows THEN Raise("ValueError")
    ELSE LET qi == apply_overflow(round_to_int(x, f, r), f, o)
         IN  Return(qi, int_to_real(qi, f), int_to_hex(qi, f))

\* (mutation) the operands summed before anything is constrained
add_constrain_sum_only(x, y, f, o, r) ==
    IF r \notin Roundings THEN Raise("ValueError")
    ELSE IF o \notin Overflows THEN Raise("ValueError")
    ELSE LET si == apply_overflow(round_to_int(x, f, r) + round_to_int(y, f, r), f, o)
         IN  Return(si, int_to_real(si, f), int_to_hex(si, f))

add(x, y, f, o, r) ==
    IF r \notin Roundings THEN Raise("ValueError")
    ELSE IF o \notin Overflows THEN Raise("ValueError")
    ELSE LET ai == apply_overflow(round_to_int(x, f, r), f, o)
             bi == apply_overflow(round_to_int(y, f, r), f, o)
             si == apply_overflow(ai + bi, f, o)
         IN  Return(si, int_to_real(si, f), int_to_hex(si, f))

\* lines 132-134 of mul: the product rescaled from Q(2F) to Q(F)
rescale(prod, f) ==
    LET bias == 2 ^ (f.F - 1)
        p == IF prod >= 0 THEN prod + bias ELSE prod - bias
    IN  p \div (2 ^ f.F)

\* (mutation) the rescaled product returned without the overflow policy
mul_unconstrained(x, y, f, o, r) ==
    IF r \notin Roundings THEN Raise("ValueError")
    ELSE IF o \notin Overflows THEN Raise("ValueError")
    ELSE IF f.F - 1 < 0 THEN Raise("ValueError")
    ELSE LET ai == apply_overflow(round_to_int(x, f, r), f, o)
             bi == apply_overflow(round_to_int(y, f, r), f, o)
             qi == rescale(ai * bi, f)
         IN  Return(qi, int_to_real(qi, f), int_to_hex(qi, f))

mul(x, y, f, o, r) ==
    IF r \notin Roundings THEN Raise("ValueError")
    ELSE IF o \notin Overflows THEN Raise("ValueError")
    \* 1 << (F - 1) with F = 0: "negative shift count"
    ELSE IF f.F - 1 < 0 THEN Raise("ValueError")
    ELSE LET ai == apply_overflow(round_to_int(x, f, r), f, o)
             bi == apply_overflow(round_to_int(y, f, r), f, o)
             qi == apply_overflow(rescale(ai * bi, f), f, o)
         IN  Return(qi, int_to_real(qi, f), int_to_hex(qi, f))

---------------------------------------------------------------------------
(* The calls the model makes *)

Formats == {[W |-> w, F |-> g, signed |-> s] :
                w \in 1..MaxW, g \in 0..(MaxW - 1), s \in BOOLEAN}
ValidFormats == {f \in Formats : f.F < f.W}

\* the valid tokens and one token outside each enumeration
OverflowTokens == Overflows \cup {"clip"}
RoundingTokens == Roundings \cup {"trunc"}

QuantizeInputs(f) ==
    {Real(n, scale(f) * Sub) :
        n \in (-(modulus(f) + Margin) * Sub)..((modulus(f) + Margin) * Sub)}
ArithInputs(f) == {Real(n, scale(f) * 2) : n \in (-2 * ArgMax)..(2 * ArgMax)}

FpInit ==
    /\ fmt \in ValidFormats
    /\ overflow \in OverflowTokens
    /\ rounding \in RoundingTokens
    /\ op = "none"
    /\ a = Zero /\ b = Zero /\ qin = 0
    /\ res = NoCall /\ res2 = NoCall

BibIdle ==
    /\ bib_files = <<>> /\ fs = <<>> /\ idx = 0
    /\ all_entries = <<>> /\ pc = "idle"

CallQuantize ==
    /\ op = "none"
    /\ \E x \in QuantizeInputs(fmt) :
        /\ a' = x
        /\ res' = quantize(x, fmt, overflow, rounding)
    /\ op' = "quantize"
    /\ UNCHANGED <<fmt, overflow, rounding, b, qin, res2>>
    /\ UNCHANGED bibvars

\* quantize applied to the real value a previous quantize returned
CallRequantize ==
    /\ op = "quantize" /\ Returned(res)
    /\ res2' = quantize(res.ret[2], fmt, overflow, rounding)
    /\ op' = "requantize"
    /\ UNCHANGED <<fmt, overflow, rounding, a, b, qin, res>>
    /\ UNCHANGED bibvars

\* int_to_real of a stored integer, then quantize with wrap and nearest
CallRoundTrip ==
    /\ op = "none" /\ overflow = "wrap" /\ rounding = "nearest"
    /\ \E qi \in 0..(modulus(fmt) - 1) :
        /\ qin' = qi
        /\ a' = int_to_real(qi, fmt)
        /\ res' = quantize(int_to_real(qi, fmt), fmt, "wrap", "nearest")
    /\ op' = "roundtrip"
    /\ UNCHANGED <<fmt, overflow, rounding, b, res2>>
    /\ UNCHANGED bibvars

CallAdd ==
    /\ op = "none"
    /\ \E x \in ArithInputs(fmt), y \in ArithInputs(fmt) :
        /\ a' = x /\ b' = y
        /\ res' = add(x, y, fmt, overflow, rounding)
    /\ op' = "add"
    /\ UNCHANGED <<fmt, overflow, rounding, qin, res2>>
    /\ UNCHANGED bibvars

CallMul ==
    /\ op = "none"
    /\ \E x \in ArithInputs(fmt), y \in ArithInputs(fmt) :
        /\ a' = x /\ b' = y
        /\ res' = mul(x, y, fmt, overflow, rounding)
    /\ op' = "mul"
    /\ UNCHANGED <<fmt, overflow, rounding, qin, res2>>
    /\ UNCHANGED bibvars

Init == FpInit /\ BibIdle

Next ==
    \/ CallQuantize
    \/ CallRequantize
    \/ CallRoundTrip
    \/ CallAdd
    \/ CallMul

Spec == Init /\ [][Next]_vars

---------------------------------------------------------------------------
(* extract_tex_citations.py: parse_bib_entries and load_all_bib_entries.   *)
(* A text is a sequence of characters; positions are 1-based, and 0 stands *)
(* for the -1 that str.find returns when nothing is found.                 *)

\* how many .bib files load_all_bib_entries is given at most
MaxFiles == 3

RECURSIVE Find(_, _, _)
\* text.find(c, start)
Find(text, c, start) ==
    IF start > Len(text) THEN 0
    ELSE IF text[start] = c THEN start
    ELSE Find(text, c, start + 1)

RECURSIVE Strip(_)
\* str.strip()
Strip(t) ==
    IF t = <<>> THEN t
    ELSE IF Head(t) = " " THEN Strip(Tail(t))
    ELSE IF t[Len(t)] = " " THEN Strip(SubSeq(t, 1, Len(t) - 1))
    ELSE t

RECURSIVE MatchClose(_, _, _)
\* the inner while loop: the position of the brace that closes the entry,
\* 0 when the text ends first
MatchClose(text, j, depth) ==
    IF j > Len(text) THEN 0
    ELSE IF text[j] = "{" THEN MatchClose(text, j + 1, depth + 1)
    ELSE IF text[j] = "}" THEN
        IF depth - 1 = 0 THEN j ELSE MatchClose(text, j + 1, depth - 1)
    ELSE MatchClose(text, j + 1, depth)

RECURSIVE bib_scan(_, _)
\* the outer while loop from position i on: the <<key, entry>> pairs in the
\* order in which the loop reaches entries.setdefault
bib_scan(text, i) ==
    IF i > Len(text) THEN <<>>
    ELSE LET at == Find(text, "@", i)
             lb == IF at = 0 THEN 0 ELSE Find(text, "{", at)
             comma == IF lb = 0 THEN 0 ELSE Find(text, ",", lb)
             j == IF comma = 0 THEN 0 ELSE MatchClose(text, lb, 0)
         IN  IF at = 0 \/ lb = 0 THEN <<>>
             ELSE IF comma = 0 THEN bib_scan(text, lb + 1)
             ELSE IF j = 0 THEN <<>>
             ELSE LET key == Strip(SubSeq(text, lb + 1, comma - 1))
                      entry == Strip(SubSeq(text, at, j))
                  IN  IF key # <<>>
                      THEN <<(<<key, entry>>)>> \o bib_scan(text, j + 1)
                      ELSE bib_scan(text, j + 1)

\* (mutation) a later entry of the file replaces an earlier one
setdefault_overwrite(entries, key, entry) ==
    [k \in DOMAIN entries \cup {key} |-> IF k = key THEN entry ELSE entries[k]]

\* dict.setdefault
setdefault(entries, key, entry) ==
    [k \in DOMAIN entries \cup {key} |->
        IF k \in DOMAIN entries THEN entries[k] ELSE entry]

RECURSIVE CollectEntries(_, _)
\* the dict that the scanned pairs build, first to last
CollectEntries(pairs, entries) ==
    IF pairs = <<>> THEN entries
    ELSE CollectEntries(Tail(pairs),
                        setdefault(entries, Head(pairs)[1], Head(pairs)[2]))

parse_bib_entries(text) == CollectEntries(bib_scan(text, 1), <<>>)

\* (mutation) a later file replaces what an earlier file loaded
merge_parsed_overwrite(entries, bf, parsed) ==
    [k \in DOMAIN entries \cup DOMAIN parsed |->
        IF k \in DOMAIN parsed THEN <<bf, parsed[k]>> ELSE entries[k]]

\* for k, v in parsed.items(): if k not in all_entries: all_entries[k] = (bf, v)
merge_parsed(entries, bf, parsed) ==
    [k \in DOMAIN entries \cup DOMAIN parsed |->
        IF k \in DOMAIN entries THEN entries[k] ELSE <<bf, parsed[k]>>]

\* The texts the files hold
EntryA1 == <<"@", "x", "{", "a", ",", "1", "}">>
EntryA2 == <<"@", "y", "{", "a", ",", "2", "}">>
EntryB1 == <<"@", "x", "{", "b", ",", "1", "}">>
EntryB2 == <<"@", "x", "{", " ", "b", " ", ",", "{", "2", "}", "}">>
EntryNoKey == <<"@", "x", "{", " ", ",", "3", "}">>
EntryNoComma == <<"@", "x", "{", "a", "}">>
EntryUnclosed == <<"@", "x", "{", "b", ",", "{", "4", "}">>
Junk == <<" ", "%", "{", "}", " ">>

Texts ==
    { <<>>,
      EntryA1,
      EntryA2,
      EntryB1,
      EntryA1 \o Junk \o EntryB1,
      EntryA1 \o EntryA2,
      EntryA2 \o EntryB2 \o EntryA1,
      Junk \o EntryB2,
      EntryNoKey \o EntryA2,
      EntryB1 \o EntryUnclosed,
      EntryNoComma \o EntryB1,
      EntryNoComma }

\* what a path holds: a text, or nothing that read_text can read
Readable(t) == [readable |-> TRUE, text |-> t]
Unreadable == [readable |-> FALSE, text |-> <<>>]

\* the i-th of the distinct paths find_bib_files returns
BibPath(i) == <<"refs", i>>

FpIdle ==
    /\ fmt = Fix16_11
    /\ overflow = "wrap" /\ rounding = "nearest"
    /\ op = "none"
    /\ a = Zero /\ b = Zero /\ qin = 0
    /\ res = NoCall /\ res2 = NoCall

BibInit ==
    /\ \E n \in 1..MaxFiles :
        /\ bib_files = [i \in 1..n |-> BibPath(i)]
        /\ fs \in [{BibPath(i) : i \in 1..n} ->
                    {Readable(t) : t \in Texts} \cup {Unreadable}]
    /\ idx = 1
    /\ all_entries = <<>>
    /\ pc = "loop"

\* one iteration of the for loop whose parse raises: warn and continue
LoadFileRaises ==
    /\ pc = "loop" /\ idx <= Len(bib_files)
    /\ ~fs[bib_files[idx]].readable
    /\ idx' = idx + 1
    /\ UNCHANGED <<bib_files, fs, all_entries, pc>>
    /\ UNCHANGED fpvars

\* one iteration of the for loop: parse the file, keep the keys not loaded yet
LoadFile ==
    /\ pc = "loop" /\ idx <= Len(bib_files)
    /\ fs[bib_files[idx]].readable
    /\ all_entries' = merge_parsed(all_entries, bib_files[idx],
                                   parse_bib_entries(fs[bib_files[idx]].text))
    /\ idx' = idx + 1
    /\ UNCHANGED <<bib_files, fs, pc>>
    /\ UNCHANGED fpvars

\* the loop is over: return all_entries
LoadReturn ==
    /\ pc = "loop" /\ idx > Len(bib_files)
    /\ pc' = "done"
    /\ UNCHANGED <<bib_files, fs, idx, all_entries>>
    /\ UNCHANGED fpvars

BibNext ==
    \/ LoadFileRaises
    \/ LoadFile
    \/ LoadReturn

BibStart == FpIdle /\ BibInit

BibSpec == BibStart /\ [][BibNext]_vars

---------------------------------------------------------------------------
(* Properties of the fixed-point module *)

ValidTokens == overflow \in Overflows /\ rounding \in Roundings
InRange(q) == min_int(fmt) <= q /\ q <= max_int(fmt)
Abs(n) == IF n < 0 THEN -n ELSE n
\* the integers the call rounds its arguments to, and the stored operands
RoundedA == round_to_int(a, fmt, rounding)
RoundedB == round_to_int(b, fmt, rounding)
StoredA == apply_overflow(RoundedA, fmt, overflow)
StoredB == apply_overflow(RoundedB, fmt, overflow)

\* C1: the stored integer returned by quantize, add and mul lies in
\* [min_int, max_int] of the format, whatever the valid policies and however
\* far outside the range the real inputs are.
C1_StoredIntegerInRange ==
    /\ (op \in {"quantize", "requantize", "roundtrip", "add", "mul"} /\ Returned(res))
          => InRange(res.ret[1])
    /\ Returned(res2) => InRange(res2.ret[1])

\* a mul whose rescaled product lies above max_int was constrained
C1_Witness ==
    /\ op = "mul" /\ Returned(res)
    /\ rescale(StoredA * StoredB, fmt) > max_int(fmt)
    /\ InRange(res.ret[1])

\* C2: with wrap, quantize returns the unique integer of [min_int, max_int]
\* congruent to the rounded integer modulo 2^W, also for negative rounded
\* integers; with Fix16_11, 16.25 rounds to 33280 and is stored as -32256.
C2_WrapCongruent ==
    /\ (op = "quantize" /\ overflow = "wrap" /\ Returned(res)) =>
          /\ InRange(res.ret[1])
          /\ (res.ret[1] - RoundedA) % modulus(fmt) = 0
          /\ \A z \in min_int(fmt)..max_int(fmt) :
                (z - RoundedA) % modulus(fmt) = 0 => z = res.ret[1]
    /\ round_to_int(Real(65, 4), Fix16_11, "nearest") = 33280
    /\ quantize(Real(65, 4), Fix16_11, "wrap", "nearest").ret[1] = -32256

\* a negative rounded integer below min_int was wrapped
C2_Witness ==
    /\ op = "quantize" /\ overflow = "wrap" /\ Returned(res)
    /\ RoundedA < min_int(fmt)
    /\ res.ret[1] # RoundedA

\* C3 as stated: int_to_real of qi in [0, modulus), then quantize with wrap
\* and nearest, returns that same qi, for signed and unsigned formats.
C3_RoundTripSameInteger ==
    (op = "roundtrip" /\ Returned(res)) => res.ret[1] = qin

\* C3 as amended: the round trip returns qi folded into the two's-complement
\* range: qi itself for an unsigned format or qi < 2^(W-1), qi - modulus for
\* a signed format and qi >= 2^(W-1).
C3_RoundTripFolded ==
    (op = "roundtrip" /\ Returned(res)) =>
        res.ret[1] = (IF fmt.signed /\ qin >= 2 ^ (fmt.W - 1)
                      THEN qin - modulus(fmt) ELSE qin)

\* a round trip of an integer in the upper half of a signed format
C3_Witness ==
    /\ op = "roundtrip" /\ Returned(res)
    /\ fmt.signed /\ qin >= 2 ^ (fmt.W - 1)
    /\ res.ret[1] = qin - modulus(fmt)

\* C4: in mul the rescaling of the product p is a symmetric round to
\* nearest: |q * 2^F - p| <= 2^(F-1) for the rescaled q, and the value
\* computed for -p is the negation of the value computed for p.
C4_RescaleSymmetricNearest ==
    (op = "mul" /\ Returned(res)) =>
        LET p == StoredA * StoredB
            q == rescale(p, fmt)
        IN  /\ Abs(q * 2 ^ fmt.F - p) <= 2 ^ (fmt.F - 1)
            /\ rescale(-p, fmt) = -q

\* C5: quantize, add and mul raise if and only if a token is outside its
\* enumeration; with valid tokens each returns the triple, for every format
\* with 0 <= F < W, F = 0 included; a call that raises returns nothing.
C5_RaisesIffInvalidToken ==
    op \in {"quantize", "add", "mul"} =>
        /\ ValidTokens => (Returned(res) /\ Len(res.ret) = 3)
        /\ ~ValidTokens => (res.raised = "ValueError" /\ res.ret = <<>>)

\* C6: re-quantizing the real value returned by a quantize, with the same
\* format and policies, returns the same real value and the same integer.
C6_Idempotent ==
    (op = "requantize" /\ Returned(res)) =>
        /\ Returned(res2)
        /\ REq(res2.ret[2], res.ret[2])
        /\ res2.ret[1] = res.ret[1]
        /\ res2.ret[3] = res.ret[3]

\* a value that the first quantize moved (saturated) and the second kept
C6_Witness ==
    /\ op = "requantize" /\ Returned(res) /\ Returned(res2)
    /\ overflow = "saturate" /\ RoundedA > max_int(fmt)
    /\ ~REq(res.ret[2], a)

\* C7: for min_real <= x <= max_real, quantize with wrap and nearest
\* returns xr with |xr - x| <= resolution / 2.
C7_RoundingErrorBound ==
    (/\ op = "quantize" /\ Returned(res)
     /\ overflow = "wrap" /\ rounding = "nearest"
     /\ RLe(min_real(fmt), a) /\ RLe(a, max_real(fmt))) =>
        RLe(RMulInt(RAbs(RSub(res.ret[2], a)), 2), resolution(fmt))

\* an in-range half-way tie, moved by exactly resolution / 2
C7_Witness ==
    /\ op = "quantize" /\ Returned(res)
    /\ overflow = "wrap" /\ rounding = "nearest"
    /\ RLe(min_real(fmt), a) /\ RLe(a, max_real(fmt))
    /\ REq(RMulInt(RAbs(RSub(res.ret[2], a)), 2), resolution(fmt))

\* C8: saturate maps a rounded integer above max_int to max_int, one below
\* min_int to min_int and keeps the others; with nearest,
\* max_real + resolution is stored as max_int and min_real - resolution as
\* min_int.
C8_Saturate ==
    (op = "quantize" /\ overflow = "saturate" /\ Returned(res)) =>
        /\ RoundedA > max_int(fmt) => res.ret[1] = max_int(fmt)
        /\ RoundedA < min_int(fmt) => res.ret[1] = min_int(fmt)
        /\ InRange(RoundedA) => res.ret[1] = RoundedA
        /\ (rounding = "nearest" /\ REq(a, RAdd(max_real(fmt), resolution(fmt))))
              => res.ret[1] = max_int(fmt)
        /\ (rounding = "nearest" /\ REq(a, RSub(min_real(fmt), resolution(fmt))))
              => res.ret[1] = min_int(fmt)

\* quantize of min_real - resolution with saturate and nearest
C8_Witness ==
    /\ op = "quantize" /\ overflow = "saturate" /\ rounding = "nearest"
    /\ Returned(res)
    /\ REq(a, RSub(min_real(fmt), resolution(fmt)))
    /\ res.ret[1] = min_int(fmt)

\* C9: add constrains each operand before summing:
\* qi = apply_overflow(apply_overflow(round(a)) + apply_overflow(round(b)));
\* under saturate, in a signed format, add(max_real + d, -d) for d a
\* multiple of the resolution with 1 <= d * scale <= 2^(W-1) is
\* max_int - d * scale, not max_int.
C9_AddConstrainsOperands ==
    (op = "add" /\ Returned(res)) =>
        /\ res.ret[1] = apply_overflow(StoredA + StoredB, fmt, overflow)
        /\ \A d \in 1..(2 ^ (fmt.W - 1)) :
              (/\ overflow = "saturate" /\ fmt.signed
               /\ REq(b, Real(-d, scale(fmt)))
               /\ REq(a, RAdd(max_real(fmt), Real(d, scale(fmt)))))
              => (res.ret[1] = max_int(fmt) - d /\ res.ret[1] # max_int(fmt))

\* an add whose result differs from constraining the sum of the rounded
\* operands only
C9_Witness ==
    /\ op = "add" /\ Returned(res) /\ overflow = "saturate"
    /\ RoundedA > max_int(fmt)
    /\ res.ret[1] # apply_overflow(RoundedA + RoundedB, fmt, overflow)

---------------------------------------------------------------------------
(* Properties of load_all_bib_entries *)

\* the positions of the list whose file could be read
ReadablePos == {i \in 1..Len(bib_files) : fs[bib_files[i]].readable}
\* the keys of the entries found in the file at position i
KeysAt(i) == {p[1] : p \in {bib_scan(fs[bib_files[i]].text, 1)[n] :
                                n \in 1..Len(bib_scan(fs[bib_files[i]].text, 1))}}
\* the text of the first entry with key k in the file at position i
FirstEntryAt(i, k) ==
    LET pairs == bib_scan(fs[bib_files[i]].text, 1)
        n == CHOOSE m \in 1..Len(pairs) :
                /\ pairs[m][1] = k
                /\ \A l \in 1..(m - 1) : pairs[l][1] # k
    IN  pairs[n][2]
\* the earliest readable position whose file has key k
FirstPos(k) ==
    CHOOSE i \in ReadablePos :
        /\ k \in KeysAt(i)
        /\ \A l \in ReadablePos : k \in KeysAt(l) => i <= l

FirstHitLoaded ==
    /\ DOMAIN all_entries = UNION {KeysAt(i) : i \in ReadablePos}
    /\ \A k \in DOMAIN all_entries :
          all_entries[k] = <<bib_files[FirstPos(k)], FirstEntryAt(FirstPos(k), k)>>

KeptByStep ==
    \A k \in DOMAIN all_entries :
        k \in DOMAIN all_entries' /\ all_entries'[k] = all_entries[k]

\* C10: first hit wins: when every file is processed each key maps to the
\* path and the entry text of the earliest file of the list that has the
\* key, and to the first entry with that key in that file; the loaded keys
\* are the union of the keys parsed from the readable files; no step
\* overwrites or removes a loaded key.
C10_FirstHitWins ==
    /\ [](pc = "done" => FirstHitLoaded)
    /\ [][KeptByStep]_vars

\* every file processed, and a key that two readable files define
\* differently, a later one of them holding it twice
C10_Witness ==
    /\ pc = "done"
    /\ \E i \in ReadablePos, j \in ReadablePos, k \in DOMAIN all_entries :
        /\ i < j /\ k \in KeysAt(i) /\ k \in KeysAt(j)
        /\ FirstEntryAt(i, k) # FirstEntryAt(j, k)
        /\ all_entries[k] = <<bib_files[i], FirstEntryAt(i, k)>>
        /\ Cardinality({n \in 1..Len(bib_scan(fs[bib_files[j]].text, 1)) :
                            bib_scan(fs[bib_files[j]].text, 1)[n][1] = k}) > 1

=============================================================================
